---- MODULE Spec2Model ----
(***************************************************************************)
(* The data-fetching and view-state behaviour of the token dashboard:      *)
(* the API client (fetchCategories, fetchTokens, fetchToken), the          *)
(* formatting helpers, the TokenTable rendering, and the two routed views  *)
(* (Dashboard, CategoryPage) with the fetches they start and the state     *)
(* they commit when those fetches settle.                                  *)
(*                                                                         *)
(* JavaScript runs one task at a time: everything a handler does up to     *)
(* its next await is one step.  A step of the model is therefore one       *)
(* browser event: a mount effect, a click, a route change, a network       *)
(* event together with the promise continuations it wakes.                 *)
(*                                                                         *)
(* Numbers are whole numbers (TLC has no fractions).  Strings that the     *)
(* source writes with characters outside ASCII are written by name.        *)
(* A behaviour follows one instance of one view from its first render:     *)
(* leaving the route, which discards the instance, is not a step.  The     *)
(* backend answers any request with any status and any body of the         *)
(* endpoint's set: arrays of records as the views read them, or text that  *)
(* is not JSON.                                                            *)
(***************************************************************************)
EXTENDS Integers, Sequences, FiniteSets, TLC

VARIABLES
  route,    \* the matched route: [view |-> "Dashboard"], [view |-> "CategoryPage", id |-> ..],
            \* or [view |-> "none"] when the API client is driven directly
  mounted,  \* whether the view's mount effect has run
  state,    \* the mounted component's useState cells
  calls,    \* every API client call made so far, in call order
  http,     \* every HTTP request issued through fetch(), in issue order
  console   \* what console.error has logged, in order

vars == <<route, mounted, state, calls, http, console>>

----------------------------------------------------------------------------
(* Bounds of the model *)

\* how many times the CategoryPage key (id, sort) changes after mount
MaxChanges == 1

\* how many calls a direct user of the API client makes
MaxClientCalls == 2

----------------------------------------------------------------------------
(* JavaScript values that reach the client and the formatters *)

Undefined == [t |-> "undefined"]
Null == [t |-> "null"]
Str(s) == [t |-> "string", v |-> s]
Num(n) == [t |-> "number", v |-> n]

\* ToBoolean
Truthy(x) ==
  CASE x.t = "string" -> x.v # ""
    [] x.t = "number" -> x.v # 0
    [] OTHER -> FALSE

\* ToString, as String(x) and URLSearchParams apply it
JSString(x) ==
  CASE x.t = "string" -> x.v
    [] x.t = "number" -> ToString(x.v)
    [] x.t = "null" -> "null"
    [] OTHER -> "undefined"

\* a parameter default: it applies to undefined only
Default(x, d) == IF x.t = "undefined" THEN d ELSE x

----------------------------------------------------------------------------
(* Formatting utilities *)

\* U+2014, the placeholder for an absent number
EmDash == "&mdash;"

\* two digits after the point
Pad2(k) == IF k < 10 THEN "0" \o ToString(k) ELSE ToString(k)

\* The nearest multiple of step to q / step, the larger one on a tie: what
\* Number.prototype.toFixed does with (n / 1e9), (n / 1e6), (n / 1e3) once the
\* digits it keeps are counted in units of step (1e7, 1e5, 1e3)
Round(q, step) == (q + step \div 2) \div step

\* x.toFixed(2), x.toFixed(1), x.toFixed(0) with x given in hundredths, tenths, units
ToFixed2(hundredths) == ToString(hundredths \div 100) \o "." \o Pad2(hundredths % 100)
ToFixed1(tenths) == ToString(tenths \div 10) \o "." \o ToString(tenths % 10)
ToFixed0(units) == ToString(units)

\* formatNumber writing millions without a decimal
formatNumberWholeMillions(n) ==
  IF n.t # "number" THEN EmDash
  ELSE IF n.v >= 1000000000 THEN "$" \o ToFixed2(Round(n.v, 10000000)) \o "B"
  ELSE IF n.v >= 1000000 THEN "$" \o ToFixed0(Round(n.v, 1000000)) \o "M"
  ELSE IF n.v >= 1000 THEN "$" \o ToFixed0(Round(n.v, 1000)) \o "K"
  ELSE "$" \o ToString(n.v) \o ".00"

formatNumber(n) ==
  IF n.t # "number" THEN EmDash
  ELSE IF n.v >= 1000000000 THEN "$" \o ToFixed2(Round(n.v, 10000000)) \o "B"
  ELSE IF n.v >= 1000000 THEN "$" \o ToFixed1(Round(n.v, 100000)) \o "M"
  ELSE IF n.v >= 1000 THEN "$" \o ToFixed0(Round(n.v, 1000)) \o "K"
  ELSE "$" \o ToString(n.v) \o ".00"

formatPercent(n) ==
  IF n.t # "number" THEN EmDash
  ELSE (IF n.v >= 0 THEN "+" ELSE "") \o ToString(n.v) \o ".0%"

CATEGORY_EMOJI(k) ==
  CASE k = "ai-meme-coins" -> "U+1F916"
    [] k = "pump-fun" -> "U+1F3B0"
    [] k = "solana-meme-coins" -> "U+2600"
    [] OTHER -> "U+1F4CA"

----------------------------------------------------------------------------
(* What the backend can send *)

\* the route parameter :id of /category/:id
Ids == {"pump-fun", "ai-meme-coins"}

CatPumpFun ==
  [id |-> "pump-fun", name |-> "PumpFun", token_count |-> 5,
   total_market_cap |-> Num(1200000000), total_volume_24h |-> Num(30000000)]
CatAI ==
  [id |-> "ai-meme-coins", name |-> "AI Agents", token_count |-> 12,
   total_market_cap |-> Num(999950), total_volume_24h |-> Null]

TokBonk ==
  [id |-> "bonk", name |-> "Bonk", symbol |-> "BONK", image |-> Str("https://img/bonk.png"),
   price |-> Num(2), market_cap |-> Num(1994999999), volume_24h |-> Num(30500),
   price_change_24h |-> Num(-3), twitter |-> Str("https://x.com/bonk"),
   telegram |-> Null, address |-> Str("DezX")]
TokWif ==
  [id |-> "wif", name |-> "dogwifhat", symbol |-> "WIF", image |-> Null,
   price |-> Num(0), market_cap |-> Num(2450000), volume_24h |-> Null,
   price_change_24h |-> Num(0), twitter |-> Null,
   telegram |-> Str("https://t.me/wif"), address |-> Null]

\* response bodies as sent: JSON texts, and one that is not JSON
BodyEmpty == "[]"
BodyCatsOne ==
  "[{\"id\":\"pump-fun\",\"name\":\"PumpFun\",\"token_count\":5,\"total_market_cap\":1.2e9,\"total_volume_24h\":3e7}]"
BodyCatsTwo ==
  "[{\"id\":\"ai-meme-coins\",\"name\":\"AI Agents\",\"token_count\":12,\"total_market_cap\":999950,\"total_volume_24h\":null},{\"id\":\"pump-fun\",\"name\":\"PumpFun\",\"token_count\":5,\"total_market_cap\":1.2e9,\"total_volume_24h\":3e7}]"
BodyTokBonk ==
  "{\"id\":\"bonk\",\"name\":\"Bonk\",\"symbol\":\"BONK\",\"image\":\"https://img/bonk.png\",\"price\":2,\"market_cap\":1994999999,\"volume_24h\":30500,\"price_change_24h\":-3,\"twitter\":\"https://x.com/bonk\",\"telegram\":null,\"address\":\"DezX\"}"
BodyTokWif ==
  "{\"id\":\"wif\",\"name\":\"dogwifhat\",\"symbol\":\"WIF\",\"image\":null,\"price\":0,\"market_cap\":2450000,\"volume_24h\":null,\"price_change_24h\":0,\"twitter\":null,\"telegram\":\"https://t.me/wif\",\"address\":null}"
BodyToksOne == "[" \o BodyTokBonk \o "]"
BodyToksTwo == "[" \o BodyTokWif \o "," \o BodyTokBonk \o "]"
BodyNotJson == "<html>502 Bad Gateway</html>"

\* the bodies each endpoint is sent
Bodies(fn) ==
  CASE fn = "fetchCategories" -> {BodyEmpty, BodyCatsOne, BodyCatsTwo, BodyNotJson}
    [] fn = "fetchTokens" -> {BodyEmpty, BodyToksOne, BodyToksTwo, BodyNotJson}
    [] OTHER -> {BodyTokBonk, BodyTokWif, BodyNotJson}

\* the status lines the backend answers with
Statuses == {200, 404}

\* Response.ok
ResponseOk(status) == status \in 200..299

\* Response.json(): whether the body parses, and what it parses to
JSONValid(text) == text # BodyNotJson
JSONParse(text) ==
  CASE text = BodyEmpty -> <<>>
    [] text = BodyCatsOne -> <<CatPumpFun>>
    [] text = BodyCatsTwo -> <<CatAI, CatPumpFun>>
    [] text = BodyToksOne -> <<TokBonk>>
    [] text = BodyToksTwo -> <<TokWif, TokBonk>>
    [] text = BodyTokBonk -> TokBonk
    [] text = BodyTokWif -> TokWif

----------------------------------------------------------------------------
(* API client *)

API_URL == "http://localhost:8000"

\* the URL each operation requests
fetchCategories == [url |-> API_URL \o "/api/categories", params |-> <<>>]

\* fetchTokens setting category whether or not one was given
fetchTokensAlwaysCategory(category, sort, limit) ==
  LET c == Default(category, Null)
      s == Default(sort, Str("market_cap"))
      l == Default(limit, Num(100))
  IN [url |-> API_URL \o "/api/tokens",
      params |-> <<[k |-> "sort", v |-> JSString(s)], [k |-> "limit", v |-> JSString(l)],
                   [k |-> "category", v |-> IF Truthy(c) THEN JSString(c) ELSE ""]>>]

fetchTokens(category, sort, limit) ==
  LET c == Default(category, Null)
      s == Default(sort, Str("market_cap"))
      l == Default(limit, Num(100))
      params == <<[k |-> "sort", v |-> JSString(s)], [k |-> "limit", v |-> JSString(l)]>>
  IN [url |-> API_URL \o "/api/tokens",
      params |-> IF Truthy(c)
                 THEN Append(params, [k |-> "category", v |-> JSString(c)])
                 ELSE params]

fetchToken(id) == [url |-> API_URL \o "/api/tokens/" \o JSString(id), params |-> <<>>]

\* the message of the Error each operation throws on a response that is not ok
FailedMessage(fn) ==
  CASE fn = "fetchCategories" -> "Failed to fetch categories"
    [] fn = "fetchTokens" -> "Failed to fetch tokens"
    [] OTHER -> "Failed to fetch token"

\* an operation is called: it is suspended at  await fetch(...)
NewCall(fn, args, owner, request) ==
  [fn |-> fn, args |-> args, owner |-> owner, request |-> request, state |-> "fetching",
   status |-> 0, body |-> "", value |-> <<>>, error |-> ""]

\* fetch(url): one GET goes out for call i
Fetch(h, i, request) == Append(h, [call |-> i, method |-> "GET", request |-> request])

\* fetch() rejected: no response at all
OnNetworkError(c) == [c EXCEPT !.state = "rejected", !.error = "TypeError: Failed to fetch"]

\* the operations without their  if (!res.ok) throw
OnResponseIgnoresOk(c, status) == [c EXCEPT !.state = "reading", !.status = status]

\* fetch() resolved with a response:  if (!res.ok) throw ...;  return res.json()
OnResponse(c, status) ==
  IF ~ResponseOk(status)
  THEN [c EXCEPT !.state = "rejected", !.status = status, !.error = FailedMessage(c.fn)]
  ELSE [c EXCEPT !.state = "reading", !.status = status]

\* res.json() settled
OnBody(c, text) ==
  IF JSONValid(text)
  THEN [c EXCEPT !.state = "fulfilled", !.body = text, !.value = JSONParse(text)]
  ELSE [c EXCEPT !.state = "rejected", !.body = text, !.error = "SyntaxError: Unexpected token"]

Settled(c) == c.state \in {"fulfilled", "rejected"}

----------------------------------------------------------------------------
(* Token Table *)

\* x >= 0 as JavaScript compares: null counts as 0, undefined compares false
NonNegative(x) ==
  CASE x.t = "number" -> x.v >= 0
    [] x.t = "null" -> TRUE
    [] OTHER -> FALSE

TokenLinks(token) ==
  (IF Truthy(token.twitter) THEN <<[href |-> token.twitter.v, label |-> "twitter"]>> ELSE <<>>)
  \o (IF Truthy(token.telegram) THEN <<[href |-> token.telegram.v, label |-> "telegram"]>> ELSE <<>>)
  \o (IF Truthy(token.address)
      THEN <<[href |-> "https://dexscreener.com/solana/" \o token.address.v, label |-> "DEX"]>>
      ELSE <<>>)

TokenRow(token, i) ==
  [key |-> token.id, rank |-> i,
   image |-> IF Truthy(token.image) THEN token.image.v ELSE "",
   name |-> token.name, symbol |-> token.symbol,
   price |-> formatNumber(token.price),
   market_cap |-> formatNumber(token.market_cap),
   volume_24h |-> formatNumber(token.volume_24h),
   change_class |-> IF NonNegative(token.price_change_24h) THEN "text-green" ELSE "text-red",
   change |-> formatPercent(token.price_change_24h),
   links |-> TokenLinks(token)]

\* TokenTable without its empty case
TokenTableNoEmptyCheck(tokens) ==
  [message |-> "", rows |-> [i \in 1..Len(tokens) |-> TokenRow(tokens[i], i)]]

TokenTable(tokens) ==
  IF Len(tokens) = 0
  THEN [message |-> "No tokens found", rows |-> <<>>]
  ELSE [message |-> "", rows |-> [i \in 1..Len(tokens) |-> TokenRow(tokens[i], i)]]

----------------------------------------------------------------------------
(* Dashboard *)

DashboardState == [categories |-> <<>>, tokens |-> <<>>, loading |-> TRUE]

\* Promise.all over the promises of the calls ps
PromiseAll(ps) ==
  IF \E k \in DOMAIN ps : ps[k].state = "rejected" THEN "rejected"
  ELSE IF \A k \in DOMAIN ps : ps[k].state = "fulfilled" THEN "fulfilled"
  ELSE "pending"

\* load() committing whichever of the two fetches fulfilled
DashboardSettledPartial(st, ps) ==
  [st EXCEPT !.categories = IF ps[1].state = "fulfilled" THEN ps[1].value ELSE @,
             !.tokens = IF ps[2].state = "fulfilled" THEN ps[2].value ELSE @,
             !.loading = FALSE]

\* load() resumes after  await Promise.all([...]):  ps are the two calls, the
\* join just settled
DashboardSettled(st, ps) ==
  IF PromiseAll(ps) = "fulfilled"
  THEN [st EXCEPT !.categories = ps[1].value, !.tokens = ps[2].value, !.loading = FALSE]
  ELSE [st EXCEPT !.loading = FALSE]

CategoryCard(cat) ==
  [key |-> cat.id, to |-> "/category/" \o cat.id, emoji |-> CATEGORY_EMOJI(cat.id),
   name |-> cat.name, count |-> ToString(cat.token_count) \o " tokens",
   market_cap |-> formatNumber(cat.total_market_cap),
   volume_24h |-> formatNumber(cat.total_volume_24h)]

\* what Dashboard returns for the state st
DashboardRender(st) ==
  IF st.loading
  THEN [screen |-> "Loading..."]
  ELSE [screen |-> "Solana Meme Tracker",
        cards |-> [i \in 1..Len(st.categories) |-> CategoryCard(st.categories[i])],
        table |-> TokenTable(st.tokens)]

----------------------------------------------------------------------------
(* Category Page *)

SortKeys == {"market_cap", "volume_24h", "price_change_24h"}

CategoryPageState == [tokens |-> <<>>, loading |-> TRUE, sort |-> "market_cap"]

categoryName(id) ==
  CASE id = "ai-meme-coins" -> "AI Agents"
    [] id = "pump-fun" -> "PumpFun"
    [] id = "solana-meme-coins" -> "Solana Memes"
    [] OTHER -> id

\* load() without its  setLoading(true)
LoadStartKeepsLoading(st) == st

\* load() asking for the default sort whatever the selection
LoadArgsDefaultSort(id, sort) == <<Str(id), Str("market_cap"), Num(100)>>

\* load() up to its await:  setLoading(true)  and the call it makes
LoadStart(st) == [st EXCEPT !.loading = TRUE]
LoadArgs(id, sort) == <<Str(id), Str(sort), Num(100)>>

\* load() with  setLoading(false)  inside the try block
CategorySettledLoadingInTry(st, c) ==
  IF c.state = "fulfilled"
  THEN [st EXCEPT !.tokens = c.value, !.loading = FALSE]
  ELSE st

\* load() clearing the tokens when the fetch fails
CategorySettledClearsOnError(st, c) ==
  IF c.state = "fulfilled"
  THEN [st EXCEPT !.tokens = c.value, !.loading = FALSE]
  ELSE [st EXCEPT !.tokens = <<>>, !.loading = FALSE]

\* load() dropping a response whose sort key is no longer the selected one
CategorySettledTagged(st, c) ==
  IF c.state = "fulfilled" /\ c.args[2].v = st.sort
  THEN [st EXCEPT !.tokens = c.value, !.loading = FALSE]
  ELSE [st EXCEPT !.loading = FALSE]

\* load() resumes after  await fetchTokens(...):  c is the call, now settled
CategorySettled(st, c) ==
  IF c.state = "fulfilled"
  THEN [st EXCEPT !.tokens = c.value, !.loading = FALSE]
  ELSE [st EXCEPT !.loading = FALSE]

\* what CategoryPage returns for the route parameter id and the state st
CategoryPageRender(id, st) ==
  [title |-> categoryName(id), emoji |-> CATEGORY_EMOJI(id),
   active |-> st.sort,
   body |-> IF st.loading
            THEN [message |-> "Loading...", rows |-> <<>>]
            ELSE TokenTable(st.tokens)]

----------------------------------------------------------------------------
(* Steps *)

\* the calls of the mounted view, and those still to settle
InFlight == {i \in DOMAIN calls : ~Settled(calls[i])}

\* Dashboard's effect runs once, on mount: load() calls both operations and
\* suspends at  await Promise.all([...])
DashboardMount ==
  /\ route.view = "Dashboard"
  /\ ~mounted
  /\ mounted' = TRUE
  /\ LET toks == <<Null, Str("market_cap"), Num(20)>>
         n == Len(calls)
     IN /\ calls' = calls
              \o <<NewCall("fetchCategories", <<>>, "Dashboard", fetchCategories),
                   NewCall("fetchTokens", toks, "Dashboard",
                           fetchTokens(toks[1], toks[2], toks[3]))>>
        /\ http' = Fetch(Fetch(http, n + 1, fetchCategories), n + 2,
                         fetchTokens(toks[1], toks[2], toks[3]))
  /\ UNCHANGED <<route, state, console>>

\* CategoryPage's effect, run for the route rt and the state st just rendered
CategoryEffect(rt, st) ==
  LET args == LoadArgs(rt.id, st.sort)
      request == fetchTokens(args[1], args[2], args[3])
  IN /\ state' = LoadStart(st)
     /\ calls' = Append(calls, NewCall("fetchTokens", args, "CategoryPage", request))
     /\ http' = Fetch(http, Len(calls) + 1, request)

\* the effect runs on mount
CategoryMount ==
  /\ route.view = "CategoryPage"
  /\ ~mounted
  /\ mounted' = TRUE
  /\ CategoryEffect(route, state)
  /\ UNCHANGED <<route, console>>

\* a sort button is clicked:  setSort(s);  the effect runs again when sort changed
SetSort(s) ==
  /\ route.view = "CategoryPage"
  /\ mounted
  /\ IF s = state.sort
     THEN UNCHANGED vars
     ELSE /\ Len(calls) <= MaxChanges
          /\ CategoryEffect(route, [state EXCEPT !.sort = s])
          /\ UNCHANGED <<route, mounted, console>>

\* the location changes to another /category/:id: the same CategoryPage is
\* rendered with the new parameter, and the effect runs again
ChangeId(j) ==
  /\ route.view = "CategoryPage"
  /\ mounted
  /\ j # route.id
  /\ Len(calls) <= MaxChanges
  /\ route' = [route EXCEPT !.id = j]
  /\ CategoryEffect(route', state)
  /\ UNCHANGED <<mounted, console>>

\* the continuation that call c, as it now stands, wakes in its caller;
\* before and after are the calls before and after this step
Resume(c, before, after) ==
  CASE Settled(c) /\ c.owner = "Dashboard"
         /\ PromiseAll(before) = "pending" /\ PromiseAll(after) # "pending" ->
         /\ state' = DashboardSettled(state, after)
         /\ console' = IF PromiseAll(after) = "rejected"
                       THEN Append(console, c.error) ELSE console
    [] Settled(c) /\ c.owner = "CategoryPage" ->
         /\ state' = CategorySettled(state, c)
         /\ console' = IF c.state = "rejected" THEN Append(console, c.error) ELSE console
    [] OTHER -> UNCHANGED <<state, console>>

Deliver(i, c) ==
  /\ calls' = [calls EXCEPT ![i] = c]
  /\ Resume(c, calls, [calls EXCEPT ![i] = c])
  /\ UNCHANGED <<route, mounted, http>>

\* the request of call i fails without a response
NetworkError(i) ==
  /\ calls[i].state = "fetching"
  /\ Deliver(i, OnNetworkError(calls[i]))

\* the response to call i arrives
Response(i, status) ==
  /\ calls[i].state = "fetching"
  /\ Deliver(i, OnResponse(calls[i], status))

\* the body of the response to call i has been read
Body(i, text) ==
  /\ calls[i].state = "reading"
  /\ Deliver(i, OnBody(calls[i], text))

Network ==
  \E i \in DOMAIN calls :
    \/ NetworkError(i)
    \/ \E status \in Statuses : Response(i, status)
    \/ \E text \in Bodies(calls[i].fn) : Body(i, text)

Init ==
  /\ route \in {[view |-> "Dashboard"]} \cup {[view |-> "CategoryPage", id |-> j] : j \in Ids}
  /\ mounted = FALSE
  /\ state = IF route.view = "Dashboard" THEN DashboardState ELSE CategoryPageState
  /\ calls = <<>>
  /\ http = <<>>
  /\ console = <<>>

Next ==
  \/ DashboardMount
  \/ CategoryMount
  \/ \E s \in SortKeys : SetSort(s)
  \/ \E j \in Ids : ChangeId(j)
  \/ Network

Spec == Init /\ [][Next]_vars

\* the browser runs a mounted component's effect, and every request ends:
\* with a response and its body, or with an error
LiveSpec ==
  Spec /\ WF_vars(DashboardMount) /\ WF_vars(CategoryMount) /\ WF_vars(Network)

----------------------------------------------------------------------------
(* The API client driven directly, with every shape of argument list *)

\* the argument lists fetchTokens is called with; a missing argument is undefined
TokensArgLists ==
  {<<>>, <<Null>>, <<Str("")>>, <<Str("pump-fun")>>,
   <<Undefined, Str("volume_24h")>>, <<Undefined, Undefined, Num(20)>>,
   <<Str("ai-meme-coins"), Str("price_change_24h"), Num(20)>>}
Arg(args, k) == IF k <= Len(args) THEN args[k] ELSE Undefined

CallFetchCategories ==
  /\ Len(calls) < MaxClientCalls
  /\ calls' = Append(calls, NewCall("fetchCategories", <<>>, "client", fetchCategories))
  /\ http' = Fetch(http, Len(calls) + 1, fetchCategories)
  /\ UNCHANGED <<route, mounted, state, console>>

CallFetchTokens(args) ==
  LET request == fetchTokens(Arg(args, 1), Arg(args, 2), Arg(args, 3))
  IN /\ Len(calls) < MaxClientCalls
     /\ calls' = Append(calls, NewCall("fetchTokens", args, "client", request))
     /\ http' = Fetch(http, Len(calls) + 1, request)
     /\ UNCHANGED <<route, mounted, state, console>>

CallFetchToken(id) ==
  /\ Len(calls) < MaxClientCalls
  /\ calls' = Append(calls, NewCall("fetchToken", <<id>>, "client", fetchToken(id)))
  /\ http' = Fetch(http, Len(calls) + 1, fetchToken(id))
  /\ UNCHANGED <<route, mounted, state, console>>

ClientInit ==
  /\ route = [view |-> "none"]
  /\ mounted = FALSE
  /\ state = <<>>
  /\ calls = <<>>
  /\ http = <<>>
  /\ console = <<>>

ClientNext ==
  \/ CallFetchCategories
  \/ \E args \in TokensArgLists : CallFetchTokens(args)
  \/ \E id \in {Str("bonk")} : CallFetchToken(id)
  \/ Network

ClientSpec == ClientInit /\ [][ClientNext]_vars

----------------------------------------------------------------------------
(* Properties *)

IsDashboard == route.view = "Dashboard"
IsCategoryPage == route.view = "CategoryPage"

\* the CategoryPage key (id, sort) differs between the two states of a step,
\* or the page mounts
KeyChange ==
  IsCategoryPage /\ (mounted' # mounted \/ route'.id # route.id \/ state'.sort # state.sort)

\* some call settles in this step, rejected or fulfilled
Rejects(i) == i \in InFlight /\ calls'[i].state = "rejected"
Fulfils(i) == i \in InFlight /\ calls'[i].state = "fulfilled"

\* C1 (state part): in the Dashboard loading is false in every state after the
\* join of the two fetches has settled, fulfilled or rejected; in the Category
\* View loading is false in every state in which every issued fetch has settled.
C1_LoadedOnceSettled ==
  /\ (IsDashboard /\ mounted /\ PromiseAll(calls) # "pending") => ~state.loading
  /\ (IsCategoryPage /\ mounted /\ InFlight = {}) => ~state.loading

\* C1: loading is false after every fetch settles, whether it succeeded or
\* failed, and stays false: under LiveSpec (every request ends), unless the key
\* keeps changing for ever, loading eventually becomes false and stays false.
C1_LoadingFalseAfterSettle ==
  /\ []C1_LoadedOnceSettled
  /\ ([]<><<KeyChange>>_vars) \/ <>[](~state.loading)

\* C1 witness: each way of settling has happened: a Dashboard whose join
\* rejected, or a Category View whose refetch failed after a key change, with
\* nothing in flight and loading false.
C1_Witness ==
  /\ mounted /\ InFlight = {} /\ ~state.loading
  /\ \/ IsDashboard /\ PromiseAll(calls) = "rejected"
     \/ IsCategoryPage /\ Len(calls) > 1 /\ calls[Len(calls)].state = "rejected"

\* C2: in the Category View a failed fetch leaves the tokens held before it
\* unchanged, makes loading false and stores nothing else in the view state:
\* the step in which a call is rejected changes the state in loading only, and
\* logs the error.
C2_FailedFetchKeepsTokens ==
  [][\A i \in DOMAIN calls :
       (IsCategoryPage /\ Rejects(i)) =>
         /\ state' = [state EXCEPT !.loading = FALSE]
         /\ console' = Append(console, calls'[i].error)]_vars

\* C2 witness: a refetch failed after an earlier fetch had loaded tokens: the
\* earlier tokens are still held, loading is false, the error is in the log only.
C2_Witness ==
  /\ IsCategoryPage /\ Len(calls) = 2
  /\ calls[1].state = "fulfilled" /\ calls[1].value # <<>>
  /\ calls[2].state = "rejected"
  /\ state = [tokens |-> calls[1].value, loading |-> FALSE, sort |-> calls[2].args[2].v]
  /\ console = <<calls[2].error>>

\* C3: in the Category View no fetch is cancelled and no response is matched
\* against the current key: a key change leaves every earlier call as it was,
\* and every call that fulfils commits its value to tokens, whatever the key is by then.
C3_NoCancelNoTag ==
  [][IsCategoryPage =>
       \A i \in DOMAIN calls :
         /\ KeyChange => calls'[i] = calls[i]
         /\ Fulfils(i) => (state'.tokens = calls'[i].value /\ ~state'.loading)]_vars

\* C3 witness: the stale final state: nothing in flight, loading false, the
\* latest call is for the current key and fulfilled, and tokens holds the
\* different value of an earlier call made for another key.
C3_StaleFinalState ==
  /\ IsCategoryPage /\ mounted /\ InFlight = {} /\ ~state.loading
  /\ LET n == Len(calls)
     IN /\ n >= 2
        /\ calls[n].args = LoadArgs(route.id, state.sort)
        /\ calls[n].state = "fulfilled"
        /\ \E i \in 1..(n - 1) :
             /\ calls[i].args # calls[n].args
             /\ calls[i].state = "fulfilled"
             /\ state.tokens = calls[i].value
             /\ state.tokens # calls[n].value

\* C4 (state part): sort is one of the three keys, and market_cap until mount
C4_SortKey ==
  IsCategoryPage => (state.sort \in SortKeys /\ (~mounted => state.sort = "market_cap"))

\* C4: in the Category View mount and every change of id or sort set loading
\* to true and make exactly one new fetchTokens call, for the id and sort
\* current at that change and limit 100, with one GET; no other step makes a
\* call; sort is always one of the three keys and starts at market_cap.
C4_EveryChangeFetches ==
  /\ []C4_SortKey
  /\ [][IsCategoryPage =>
          IF KeyChange
          THEN /\ state'.loading
               /\ Len(calls') = Len(calls) + 1
               /\ Len(http') = Len(http) + 1
               /\ LET c == calls'[Len(calls')]
                  IN /\ c.fn = "fetchTokens"
                     /\ c.args = <<Str(route'.id), Str(state'.sort), Num(100)>>
                     /\ c.request.params =
                          <<[k |-> "sort", v |-> state'.sort], [k |-> "limit", v |-> "100"],
                            [k |-> "category", v |-> route'.id]>>
                     /\ http'[Len(http')] =
                          [call |-> Len(calls'), method |-> "GET", request |-> c.request]
          ELSE Len(calls') = Len(calls) /\ http' = http]_vars

\* C4 witness: after mount the sort key was changed: a second call was made,
\* for the new key, and loading is true again after the first load had ended.
C4_Witness ==
  /\ IsCategoryPage /\ Len(calls) = 2 /\ state.loading
  /\ Settled(calls[1])
  /\ state.sort # "market_cap"
  /\ calls[2].args = <<Str(route.id), Str(state.sort), Num(100)>>

\* C5: in the Dashboard categories and tokens are committed together or not at
\* all: either is non-empty only if both fetches fulfilled, both are still
\* empty whenever a fetch was rejected, and after both fulfilled they are the
\* two fetched values.
C5_AllOrNothing ==
  IsDashboard =>
    /\ (state.categories # <<>> \/ state.tokens # <<>>) =>
         (mounted /\ PromiseAll(calls) = "fulfilled")
    /\ (mounted /\ PromiseAll(calls) = "rejected") =>
         (state.categories = <<>> /\ state.tokens = <<>>)
    /\ (mounted /\ PromiseAll(calls) = "fulfilled") =>
         (state.categories = calls[1].value /\ state.tokens = calls[2].value)

\* C5 witness: the categories fetch succeeded with categories, the tokens
\* fetch was rejected, and the fetched categories were not committed.
C5_Witness ==
  /\ IsDashboard /\ mounted
  /\ calls[1].state = "fulfilled" /\ calls[1].value # <<>>
  /\ calls[2].state = "rejected"
  /\ state.categories = <<>>

CategoriesFailedTokensFetched ==
  /\ IsDashboard /\ mounted
  /\ calls[1].state = "rejected"
  /\ calls[2].state = "fulfilled"

\* C6 as claimed: when the categories fetch rejects and the tokens fetch
\* succeeds, the Dashboard is loaded and its token table is built from the
\* tokens the successful fetch returned.
C6_TableFromFetchedTokens ==
  CategoriesFailedTokensFetched =>
    (~state.loading /\ DashboardRender(state).table = TokenTable(calls[2].value))

\* C6 amended: when the categories fetch rejects and the tokens fetch
\* succeeds, the Dashboard is loaded and renders TokenTable over the empty
\* tokens it started with, which shows "No tokens found", and no card: the
\* fetched tokens are dropped.
C6_TableEmptyAfterPartialFailure ==
  CategoriesFailedTokensFetched =>
    /\ ~state.loading
    /\ DashboardRender(state).table = [message |-> "No tokens found", rows |-> <<>>]
    /\ DashboardRender(state).cards = <<>>

\* C6 witness: categories rejected, tokens fulfilled with tokens, the view loaded.
C6_Witness ==
  /\ CategoriesFailedTokensFetched
  /\ calls[2].value # <<>>
  /\ ~state.loading

\* the GETs issued for call i
GetsOf(i) == {k \in DOMAIN http : http[k].call = i}

OneGetPerCall ==
  /\ Len(http) = Len(calls)
  /\ \A i \in DOMAIN calls :
       /\ Cardinality(GetsOf(i)) = 1
       /\ \A k \in GetsOf(i) : http[k].method = "GET" /\ http[k].request = calls[i].request

\* a call that got a response and has settled
Answered(c) == Settled(c) /\ c.status # 0

\* C7 as claimed: each operation issues exactly one GET per call and never a
\* second one; it returns the response body when the response is 2xx and fails
\* with an error when it is not.
C7_OneGetBodyOrError ==
  /\ OneGetPerCall
  /\ \A i \in DOMAIN calls :
       Answered(calls[i]) =>
         IF ResponseOk(calls[i].status)
         THEN calls[i].state = "fulfilled" /\ calls[i].value = JSONParse(calls[i].body)
         ELSE calls[i].state = "rejected"

\* C7 amended: each operation issues exactly one GET per call and never a
\* second one; on a 2xx response it returns the body parsed as JSON when the
\* body is JSON and fails with the parser's error when it is not; on any other
\* response it fails with its "Failed to fetch ..." error; when the request
\* itself fails it fails with that error.
C7_OneGetParsedBodyOrError ==
  /\ OneGetPerCall
  /\ \A i \in DOMAIN calls :
       LET c == calls[i]
       IN /\ Answered(c) =>
               IF ResponseOk(c.status)
               THEN IF JSONValid(c.body)
                    THEN c.state = "fulfilled" /\ c.value = JSONParse(c.body)
                    ELSE c.state = "rejected" /\ c.error # FailedMessage(c.fn)
               ELSE c.state = "rejected" /\ c.error = FailedMessage(c.fn)
          /\ (Settled(c) /\ c.status = 0) => c.state = "rejected"

\* C7 witness: one call was answered 404 and rejected, another was answered
\* 200 and returned the parsed body, and two GETs went out in all.
C7_Witness ==
  /\ Len(calls) = 2 /\ Len(http) = 2
  /\ \E i, j \in DOMAIN calls :
       /\ calls[i].state = "rejected" /\ calls[i].status = 404
       /\ calls[j].state = "fulfilled" /\ calls[j].status = 200

\* a category was supplied: a string that is not empty
Supplied(x) == x.t = "string" /\ x.v # ""

\* the values the query p gives parameter k, in order
ParamValues(p, k) ==
  LET RECURSIVE Collect(_)
      Collect(j) == IF j > Len(p) THEN <<>>
                    ELSE (IF p[j].k = k THEN <<p[j].v>> ELSE <<>>) \o Collect(j + 1)
  IN Collect(1)

\* C8: fetchTokens always sends sort and limit, market_cap and 100 when they
\* are not given, and sends category exactly when a category was supplied,
\* with its value; without one the parameter is absent, never an empty string.
C8_TokensQuery ==
  \A i \in DOMAIN calls :
    calls[i].fn = "fetchTokens" =>
      LET a == calls[i].args
          p == calls[i].request.params
      IN /\ ParamValues(p, "sort") =
              <<IF Arg(a, 2) = Undefined THEN "market_cap" ELSE Arg(a, 2).v>>
         /\ ParamValues(p, "limit") =
              <<IF Arg(a, 3) = Undefined THEN "100" ELSE ToString(Arg(a, 3).v)>>
         /\ ParamValues(p, "category") =
              IF Supplied(Arg(a, 1)) THEN <<Arg(a, 1).v>> ELSE <<>>
         /\ \A j \in DOMAIN p : p[j].k \in {"sort", "limit", "category"} /\ p[j].v # ""

\* C8 witness: fetchTokens() was called with no argument and asked for
\* sort=market_cap&limit=100 only, and another call named a category and sent it.
C8_Witness ==
  \E i, j \in DOMAIN calls :
    /\ calls[i].fn = "fetchTokens" /\ calls[i].args = <<>>
    /\ calls[i].request.params =
         <<[k |-> "sort", v |-> "market_cap"], [k |-> "limit", v |-> "100"]>>
    /\ calls[j].fn = "fetchTokens" /\ Len(calls[j].args) > 0
    /\ Supplied(calls[j].args[1])
    /\ Len(calls[j].request.params) = 3

DashboardLoaded == IsDashboard /\ mounted /\ PromiseAll(calls) = "fulfilled" /\ ~state.loading

\* after a successful load there is one card per fetched category, with its
\* name, its token count, and its two totals formatted; the PumpFun card
\* shows the given volume text
CardsShow(volume) ==
  DashboardLoaded =>
    LET fetched == calls[1].value
        cards == DashboardRender(state).cards
    IN /\ Len(cards) = Len(fetched)
       /\ \A i \in DOMAIN fetched :
            /\ cards[i].name = fetched[i].name
            /\ cards[i].count = ToString(fetched[i].token_count) \o " tokens"
            /\ cards[i].market_cap = formatNumber(fetched[i].total_market_cap)
            /\ cards[i].volume_24h = formatNumber(fetched[i].total_volume_24h)
            /\ fetched[i] = CatPumpFun =>
                 /\ cards[i].name = "PumpFun"
                 /\ cards[i].count = "5 tokens"
                 /\ cards[i].market_cap = "$1.20B"
                 /\ cards[i].volume_24h = volume

\* C9 as claimed: after a successful load the Dashboard shows one card per
\* fetched category with its name, "<token_count> tokens" and its formatted
\* totals; the PumpFun card shows "PumpFun", "5 tokens", "$1.20B" and "$30M".
C9_PumpFunCard30M == CardsShow("$30M")

\* C9 amended: the same, the PumpFun card showing "PumpFun", "5 tokens",
\* "$1.20B" and "$30.0M": millions are written with one decimal.
C9_PumpFunCard30Point0M == CardsShow("$30.0M")

\* C9 witness: the Dashboard loaded the one PumpFun category of the example.
C9_Witness ==
  /\ DashboardLoaded
  /\ calls[1].body = BodyCatsOne
  /\ Len(DashboardRender(state).cards) = 1

\* C10 as claimed: in the Category View loading is true in every state in
\* which the fetch for the current (id, sort), the latest call, has not settled.
C10_LoadingWhileCurrentInFlight ==
  (IsCategoryPage /\ mounted /\ ~Settled(calls[Len(calls)])) => state.loading

\* C10 amended: in the Category View loading becomes true when a fetch is
\* issued and stays true until the next fetch settles, the current one or an
\* earlier, superseded one: loading turns false only in a step in which some
\* call settles, every such step turns it false, and loading is true only
\* while some fetch is in flight.  (So the table can be displayed while the
\* latest fetch is in flight, once a superseded fetch has settled.)
C10_LoadingUntilAnyFetchSettles ==
  /\ []((IsCategoryPage /\ mounted /\ state.loading) => InFlight # {})
  /\ [][IsCategoryPage =>
          /\ Len(calls') > Len(calls) => state'.loading
          /\ (state.loading /\ ~state'.loading) => \E i \in InFlight : Settled(calls'[i])
          /\ (\E i \in InFlight : Settled(calls'[i])) => ~state'.loading]_vars

\* C10 witness: the latest fetch is still in flight and loading is false: a
\* superseded fetch settled after the key changed.
C10_Witness ==
  /\ IsCategoryPage /\ mounted
  /\ Len(calls) = 2
  /\ Settled(calls[1]) /\ ~Settled(calls[2])
  /\ ~state.loading

====
